---- MODULE Spec2Model ----
(***************************************************************************)
(* Retry loops of the Slack webhook senders.                               *)
(*                                                                         *)
(* Five variants of send_msg_slack are modelled, one per source file:      *)
(*   "v0"  slack_retries_v0.py   hand-written while loop, fixed sleep      *)
(*   "v1"  slack_retries_v1.py   tenacity, retry on any exception          *)
(*   "v2"  slack_retries_v2.py   tenacity, retry on SendMsgError only      *)
(*   "v3"  slack_retries_v3.py   v2 + Retry-After override (custom_wait)   *)
(*   "rs"  retries_slack.py      reraise=True, wait_chain default,         *)
(*                               one SlackPub instance for all calls       *)
(*                                                                         *)
(* The tenacity and requests libraries are not part of the repository;     *)
(* their documented behaviour is modelled where the sources call them:     *)
(*   - Response.raise_for_status() raises HTTPError iff 400 <= status < 600 *)
(*   - stop_after_attempt(n) stops when attempt_number >= n                *)
(*   - without reraise=True exhaustion raises RetryError wrapping the last *)
(*     outcome; with reraise=True it re-raises the last exception          *)
(*   - wait_exponential(multiplier, min, max) is                           *)
(*       max(max(0,min), min(multiplier * 2^(attempt_number-1), max))      *)
(*   - wait_chain(s1..sn) uses strategy number min(max(attempt,1), n)      *)
(*   - tenacity releases differ in whether the wait callable is evaluated  *)
(*     before or after the stop check; the variable waitBeforeStop is a    *)
(*     nondeterministic choice between the two orders.                     *)
(*   - int(text) is that of Python 3.11: white space ignored at both ends, *)
(*     an optional sign, decimal digits of any script with single          *)
(*     underscores between them, at most 4300 digits                       *)
(*   - tenacity converts the delay with float() before it sleeps, and      *)
(*     counts the next attempt before it calls time.sleep                  *)
(*   - time.sleep raises ValueError on a negative length, OverflowError    *)
(*     beyond 9223372036 s and OSError when the deadline is beyond the     *)
(*     range of the monotonic clock                                        *)
(***************************************************************************)
EXTENDS Integers, Sequences, FiniteSets

----------------------------------------------------------------------------
(* Bounds of the exploration *)

\* number of logical calls one driver performs in sequence
MaxCalls == 2

\* attempt indexes the default schedules are evaluated at
MaxIndex == 12

\* attempts each thread makes when two threads are interleaved
MaxConcAttempts == 2

\* the threads of control and the SlackPub objects
Procs == {1, 2}
Insts == {1, 2}

Variants == {"v0", "v1", "v2", "v3", "rs"}
TenacityVariants == {"v1", "v2", "v3", "rs"}

\* status codes the endpoint answers with: 2xx, 3xx, 4xx, 429, 5xx
Statuses == {200, 201, 304, 404, 429, 503}

\* response bodies
Bodies == {"b1", "b2"}

\* texts of the Retry-After header, each the sequence of the code points of
\* its characters: "0", "5", "x", "-1", and "+5" after a no-break space
HeaderTexts == {<<48>>, <<53>>, <<120>>, <<45, 49>>, <<160, 43, 53>>}

----------------------------------------------------------------------------
(* Program constants *)

TOTAL_ATTEMPS == 4
SLEEP == 1
TOO_MANY_CALLS == 429
STOP_AFTER_ATTEMPT == 4

----------------------------------------------------------------------------
(* Values *)

\* a Python int: its value where the value has at most SmallDigits digits,
\* and otherwise its sign (in val) and its decimal digits without leading zeros
PyInt(n) == [val |-> n, big |-> <<>>]
PyBig(neg, digits) == [val |-> IF neg THEN 0 - 1 ELSE 1, big |-> digits]

\* Python None / an int stored in self.wait['send_msg_slack']
None == [some |-> FALSE, val |-> PyInt(0)]
Some(d) == [some |-> TRUE, val |-> d]

\* headers.get("Retry-After", None)
Absent == [present |-> FALSE, text |-> <<>>]
Hdr(t) == [present |-> TRUE, text |-> t]

NoStatus == 0
NoBody == "none"

Http(s, h, b) == [kind |-> "http", status |-> s, retry_after |-> h, body |-> b]
ConnErr == [kind |-> "connerr", status |-> NoStatus, retry_after |-> Absent, body |-> NoBody]

HeadersFor(s) ==
    IF s = 429 THEN {Absent} \cup {Hdr(t) : t \in HeaderTexts}
    ELSE IF s = 503 THEN {Absent, Hdr(<<53>>)}
    ELSE {Absent}

\* what requests.post can produce: a response, or a connection-level exception
Responses ==
    UNION {{Http(s, h, b) : h \in HeadersFor(s), b \in Bodies} : s \in Statuses}
        \cup {ConnErr}

\* the outcome of one call of the function, and the result of a logical call
Returned(status, body, success) ==
    [kind |-> "return", exc |-> "none", status |-> status, body |-> body,
     success |-> success, during |-> "call"]
\* an exception of a call of the function body, or tenacity's RetryError
\* about the last call
Raised(exc, status, body) ==
    [kind |-> "raise", exc |-> exc, status |-> status, body |-> body,
     success |-> FALSE, during |-> "call"]
\* an exception of tenacity's own statements between two calls: the
\* conversion of the delay with float(), or time.sleep
RaisedInWait(exc) ==
    [kind |-> "raise", exc |-> exc, status |-> NoStatus, body |-> NoBody,
     success |-> FALSE, during |-> "wait"]
NoOutcome ==
    [kind |-> "none", exc |-> "none", status |-> NoStatus, body |-> NoBody,
     success |-> FALSE, during |-> "none"]

LogEntry(resp) == [kind |-> resp.kind, status |-> resp.status, retry_after |-> resp.retry_after]

----------------------------------------------------------------------------
(* Library functions used by the sources *)

Min(a, b) == IF a < b THEN a ELSE b
Max(a, b) == IF a > b THEN a ELSE b

RECURSIVE Pow2(_)
Pow2(n) == IF n <= 0 THEN 1 ELSE 2 * Pow2(n - 1)

\* the code points of the digits zero of the decimal digit runs: ASCII "0"
\* first, then the zeros of the other scripts (Unicode 14, category Nd)
DigitZeros ==
    {
     48, 1632, 1776, 1984, 2406, 2534, 2662, 2790, 2918, 3046, 3174, 3302,
     3430, 3558, 3664, 3792, 3872, 4160, 4240, 6112, 6160, 6470, 6608,
     6784, 6800, 6992, 7088, 7232, 7248, 42528, 43216, 43264, 43472, 43504,
     43600, 44016, 65296, 66720, 68912, 69734, 69872, 69942, 70096, 70384,
     70736, 70864, 71248, 71360, 71472, 71904, 72016, 72784, 73040, 73120,
     92768, 92864, 93008, 120782, 120792, 120802, 120812, 120822, 123200,
     123632, 125264, 130032}

\* the characters int() reads as decimal digits
Digits == UNION {z..(z + 9) : z \in DigitZeros}

\* the value int() gives a decimal digit
DigitVal(c) == c - (CHOOSE z \in DigitZeros : z <= c /\ c <= z + 9)

\* the white space int() ignores at both ends of its argument: tab, line
\* feed, vertical tab, form feed, carriage return, space, NEL, no-break
\* space and the other Unicode spaces
Whitespace ==
    {9, 10, 11, 12, 13, 32, 133, 160, 5760, 8232, 8233, 8239, 8287, 12288}
        \cup (8192..8202)

\* the characters "+", "-" and "_"
PLUS == 43
MINUS == 45
UNDERSCORE == 95

\* sys.int_info.default_max_str_digits: the most digits int() converts
INT_MAX_STR_DIGITS == 4300

\* the most digits of a Python int that is kept as a number in PyInt
SmallDigits == 9

\* the text without the white space at its two ends
Strip(text) ==
    LET idx == {i \in 1..Len(text) : text[i] \notin Whitespace} IN
    IF idx = {} THEN <<>>
    ELSE SubSeq(text, CHOOSE i \in idx : \A j \in idx : i <= j,
                      CHOOSE i \in idx : \A j \in idx : i >= j)

\* the stripped text without its optional sign
Unsigned(text) ==
    LET s == Strip(text) IN
    IF Len(s) > 0 /\ s[1] \in {PLUS, MINUS} THEN Tail(s) ELSE s

\* the decimal digits of the text, as the values 0..9, underscores left out
DigitsOf(text) ==
    LET IsDigit(c) == c \in Digits
        ds == SelectSeq(Unsigned(text), IsDigit)
    IN [i \in 1..Len(ds) |-> DigitVal(ds[i])]

\* a digit sequence without its leading zeros
Canonical(ds) ==
    LET idx == {i \in 1..Len(ds) : ds[i] # 0} IN
    IF idx = {} THEN <<>>
    ELSE SubSeq(ds, CHOOSE i \in idx : \A j \in idx : i <= j, Len(ds))

\* the value of a sequence of decimal digits
RECURSIVE NatOf(_)
NatOf(ds) ==
    IF Len(ds) = 0 THEN 0
    ELSE 10 * NatOf(SubSeq(ds, 1, Len(ds) - 1)) + ds[Len(ds)]

\* a < b for two digit sequences without leading zeros
DigitsLess(a, b) ==
    \/ Len(a) < Len(b)
    \/ /\ Len(a) = Len(b)
       /\ \E i \in 1..Len(a) : a[i] < b[i] /\ \A j \in 1..(i - 1) : a[j] = b[j]

\* int(text) succeeds on: white space, an optional sign, decimal digits with
\* single underscores between them, white space, and no more than
\* INT_MAX_STR_DIGITS digits; it raises ValueError otherwise
IntParses(text) ==
    LET u == Unsigned(text) IN
    /\ Len(u) > 0
    /\ \A i \in 1..Len(u) : u[i] \in Digits \cup {UNDERSCORE}
    /\ u[1] # UNDERSCORE /\ u[Len(u)] # UNDERSCORE
    /\ \A i \in 1..(Len(u) - 1) : ~(u[i] = UNDERSCORE /\ u[i + 1] = UNDERSCORE)
    /\ Len(DigitsOf(text)) <= INT_MAX_STR_DIGITS

\* int(text) where it succeeds
IntOf(text) ==
    LET s == Strip(text)
        neg == Len(s) > 0 /\ s[1] = MINUS
        ds == Canonical(DigitsOf(text))
    IN IF Len(ds) <= SmallDigits
       THEN PyInt(IF neg THEN 0 - NatOf(ds) ELSE NatOf(ds))
       ELSE PyBig(neg, ds)

\* seconds < 0
IsNegative(seconds) == seconds.val < 0

\* the integer from which float() raises OverflowError: 2^1024 - 2^970
FLOAT_OVERFLOW ==
    <<
     1, 7, 9, 7, 6, 9, 3, 1, 3, 4, 8, 6, 2, 3, 1, 5, 8, 0, 7, 9, 3, 7, 2,
     8, 9, 7, 1, 4, 0, 5, 3, 0, 3, 4, 1, 5, 0, 7, 9, 9, 3, 4, 1, 3, 2, 7,
     1, 0, 0, 3, 7, 8, 2, 6, 9, 3, 6, 1, 7, 3, 7, 7, 8, 9, 8, 0, 4, 4, 4,
     9, 6, 8, 2, 9, 2, 7, 6, 4, 7, 5, 0, 9, 4, 6, 6, 4, 9, 0, 1, 7, 9, 7,
     7, 5, 8, 7, 2, 0, 7, 0, 9, 6, 3, 3, 0, 2, 8, 6, 4, 1, 6, 6, 9, 2, 8,
     8, 7, 9, 1, 0, 9, 4, 6, 5, 5, 5, 5, 4, 7, 8, 5, 1, 9, 4, 0, 4, 0, 2,
     6, 3, 0, 6, 5, 7, 4, 8, 8, 6, 7, 1, 5, 0, 5, 8, 2, 0, 6, 8, 1, 9, 0,
     8, 9, 0, 2, 0, 0, 0, 7, 0, 8, 3, 8, 3, 6, 7, 6, 2, 7, 3, 8, 5, 4, 8,
     4, 5, 8, 1, 7, 7, 1, 1, 5, 3, 1, 7, 6, 4, 4, 7, 5, 7, 3, 0, 2, 7, 0,
     0, 6, 9, 8, 5, 5, 5, 7, 1, 3, 6, 6, 9, 5, 9, 6, 2, 2, 8, 4, 2, 9, 1,
     4, 8, 1, 9, 8, 6, 0, 8, 3, 4, 9, 3, 6, 4, 7, 5, 2, 9, 2, 7, 1, 9, 0,
     7, 4, 1, 6, 8, 4, 4, 4, 3, 6, 5, 5, 1, 0, 7, 0, 4, 3, 4, 2, 7, 1, 1,
     5, 5, 9, 6, 9, 9, 5, 0, 8, 0, 9, 3, 0, 4, 2, 8, 8, 0, 1, 7, 7, 9, 0,
     4, 1, 7, 4, 4, 9, 7, 7, 9, 2>>

\* float(seconds): TRUE iff it raises OverflowError
float_raises(seconds) ==
    seconds.big # <<>> /\ ~DigitsLess(seconds.big, FLOAT_OVERFLOW)

\* the most seconds a 64-bit count of nanoseconds holds: 9223372036
TIME_MAX == <<9, 2, 2, 3, 3, 7, 2, 0, 3, 6>>

\* the longest sleep whose deadline the monotonic clock can hold: TIME_MAX
\* less the reading of the clock, for a clock at 1 s and for one at 10^9 s
SleepLimits ==
    {<<9, 2, 2, 3, 3, 7, 2, 0, 3, 5>>, <<8, 2, 2, 3, 3, 7, 2, 0, 3, 6>>}

\* time.sleep(seconds): the exception it raises, "none" when it sleeps.
\* OverflowError beyond the range of the nanosecond count, ValueError on a
\* negative length, OSError when the deadline is beyond the clock's range
time_sleep(seconds, limit) ==
    IF seconds.big # <<>> /\ DigitsLess(TIME_MAX, seconds.big) THEN "OverflowError"
    ELSE IF IsNegative(seconds) THEN "ValueError"
    ELSE IF seconds.big # <<>> /\ DigitsLess(limit, seconds.big) THEN "OSError"
    ELSE "none"

\* Response.raise_for_status(): TRUE iff it raises HTTPError
raise_for_status(status) == 400 <= status /\ status < 600

\* forgets the cap
wait_exponential_uncapped(multiplier, min, max, attempt) ==
    Max(Max(0, min), multiplier * Pow2(attempt - 1))

\* tenacity.wait_exponential(multiplier, min, max)(retry_state)
wait_exponential(multiplier, min, max, attempt) ==
    Max(Max(0, min), Min(multiplier * Pow2(attempt - 1), max))

\* tenacity.wait_chain(*strategies)(retry_state), strategies all wait_fixed
wait_chain(strategies, attempt) ==
    strategies[Min(Max(attempt, 1), Len(strategies))]

\* off by one: one attempt too many
stop_after_attempt_late(n, attempt) == attempt > n

\* tenacity.stop_after_attempt(n)(retry_state)
stop_after_attempt(n, attempt) == attempt >= n

----------------------------------------------------------------------------
(* The retried functions: one call of the function body on one response.   *)
(* Each yields the outcome of the call (return value or exception) and the *)
(* new content of self.wait['send_msg_slack'].                             *)

Call(out, slot) == [out |-> out, wait |-> slot]

\* slack_retries_v0.py lines 30-39, slack_retries_v1.py lines 27-32:
\* post, then raise_for_status(), then return the text
send_msg_slack_v1(resp, slot) ==
    IF resp.kind = "connerr" THEN Call(Raised("ConnectionError", NoStatus, NoBody), slot)
    ELSE IF raise_for_status(resp.status)
         THEN Call(Raised("HTTPError", resp.status, resp.body), slot)
         ELSE Call(Returned(resp.status, resp.body, TRUE), slot)

\* slack_retries_v2.py lines 27-40
send_msg_slack_v2(resp, slot) ==
    IF resp.kind = "connerr" THEN Call(Raised("ConnectionError", NoStatus, NoBody), slot)
    ELSE IF resp.status = 200 THEN Call(Returned(resp.status, resp.body, TRUE), slot)
    ELSE IF resp.status = 429 \/ resp.status >= 500
         THEN Call(Raised("SendMsgError", resp.status, resp.body), slot)
    ELSE IF raise_for_status(resp.status)
         THEN Call(Raised("HTTPError", resp.status, resp.body), slot)
         ELSE Call(Returned(resp.status, resp.body, TRUE), slot)

\* slack_retries_v3.py lines 53-72
send_msg_slack_v3(resp, slot) ==
    IF resp.kind = "connerr" THEN Call(Raised("ConnectionError", NoStatus, NoBody), slot)
    ELSE IF resp.status = 200 THEN Call(Returned(resp.status, resp.body, TRUE), slot)
    ELSE IF resp.status = 429
         THEN IF resp.retry_after.present
              THEN IF IntParses(resp.retry_after.text)
                   THEN Call(Raised("SendMsgError", resp.status, resp.body),
                             Some(IntOf(resp.retry_after.text)))
                   ELSE Call(Raised("ValueError", NoStatus, NoBody), slot)
              ELSE Call(Raised("SendMsgError", resp.status, resp.body), slot)
    ELSE IF resp.status >= 500
         THEN Call(Raised("SendMsgError", resp.status, resp.body), slot)
    ELSE IF raise_for_status(resp.status)
         THEN Call(Raised("HTTPError", resp.status, resp.body), slot)
         ELSE Call(Returned(resp.status, resp.body, TRUE), slot)

\* retries_slack.py lines 101-131: the result dict carries success and response
send_msg_slack_rs(resp, slot) ==
    IF resp.kind = "connerr" THEN Call(Raised("ConnectionError", NoStatus, NoBody), slot)
    ELSE IF resp.status # 200
         THEN IF resp.status = TOO_MANY_CALLS
              THEN IF ~resp.retry_after.present
                   THEN Call(Raised("SendMsgError", resp.status, resp.body), slot)
                   ELSE IF IntParses(resp.retry_after.text)
                        THEN Call(Raised("SendMsgError", resp.status, resp.body),
                                  Some(IntOf(resp.retry_after.text)))
                        ELSE Call(Raised("ValueError", NoStatus, NoBody), slot)
              ELSE IF resp.status >= 500
                   THEN Call(Raised("SendMsgError", resp.status, resp.body), slot)
                   ELSE Call(Returned(resp.status, resp.body, FALSE), slot)
         ELSE Call(Returned(resp.status, resp.body, TRUE), slot)

send_msg_slack(v, resp, slot) ==
    CASE v = "v0" -> send_msg_slack_v1(resp, slot)
      [] v = "v1" -> send_msg_slack_v1(resp, slot)
      [] v = "v2" -> send_msg_slack_v2(resp, slot)
      [] v = "v3" -> send_msg_slack_v3(resp, slot)
      [] v = "rs" -> send_msg_slack_rs(resp, slot)

----------------------------------------------------------------------------
(* The retry policies given to tenacity.retry                              *)

\* retries whatever the call produced, a returned response included
retry_predicate_always(v, out) == TRUE

\* retry=: retry_if_exception_type(SendMsgError) in v2 and v3, the default
\* retry_if_exception_type(Exception) in v1 and retries_slack
retry_predicate(v, out) ==
    IF v \in {"v2", "v3"} THEN out.kind = "raise" /\ out.exc = "SendMsgError"
    ELSE out.kind = "raise"

\* reraise=True only in retries_slack.retry_options
reraise(v) == v = "rs"

\* the default schedule of each variant
default_wait(v, attempt) ==
    CASE v = "v1" -> wait_exponential(1, 0, 10, attempt)
      [] v = "v2" -> wait_exponential(1, 4, 10, attempt)
      [] v = "v3" -> wait_exponential(1, 0, 10, attempt)
      [] v = "rs" -> wait_chain(<<1, 1, 3, 3, 6>>, attempt)
      [] v = "v0" -> SLEEP

\* tests the stored value for truth instead of "is None": a hint of 0 is lost
custom_wait_truthy(v, slot, attempt) ==
    IF ~slot.some \/ slot.val = PyInt(0)
    THEN [delay |-> PyInt(default_wait(v, attempt)), wait |-> slot, override |-> FALSE]
    ELSE [delay |-> slot.val, wait |-> None, override |-> TRUE]

\* forgets to clear the slot after returning the override
custom_wait_sticky(v, slot, attempt) ==
    IF ~slot.some
    THEN [delay |-> PyInt(default_wait(v, attempt)), wait |-> slot, override |-> FALSE]
    ELSE [delay |-> slot.val, wait |-> slot, override |-> TRUE]

\* custom_wait(retry_state): the pending override if there is one, else the default
custom_wait(v, slot, attempt) ==
    IF ~slot.some
    THEN [delay |-> PyInt(default_wait(v, attempt)), wait |-> slot, override |-> FALSE]
    ELSE [delay |-> slot.val, wait |-> None, override |-> TRUE]

\* wait=: custom_wait in v3 and retries_slack, wait_exponential in v1 and v2
wait_strategy(v, slot, attempt) ==
    IF v \in {"v3", "rs"} THEN custom_wait(v, slot, attempt)
    ELSE [delay |-> PyInt(default_wait(v, attempt)), wait |-> slot, override |-> FALSE]

\* what the caller of the retried function gets when tenacity stops
exhausted(v, out) ==
    IF reraise(v) THEN out ELSE Raised("RetryError", NoStatus, NoBody)

----------------------------------------------------------------------------
(* State *)

VARIABLES
    variant,         \* which source file runs
    waitBeforeStop,  \* the installed tenacity evaluates wait= before stop=
    running,         \* the threads of control that perform logical calls
    inst,            \* the SlackPub object each thread calls
    wait,            \* wait[i]: self.wait['send_msg_slack'] of object i
    pc,              \* position of each thread in its retry loop
    attempt_number,  \* retry_state.attempt_number, attemp in v0
    response,        \* msg_rq: the response of the last requests.post
    outcome,         \* outcome of the last call of the function body
    upcoming_sleep,  \* the delay chosen for the sleep in progress
    log,             \* the responses received in the current logical call
    delays,          \* the sleeps performed in the current logical call
    result,          \* what the current logical call gave its caller
    calls            \* logical calls started by each thread

vars == <<variant, waitBeforeStop, running, inst, wait, pc, attempt_number,
          response, outcome, upcoming_sleep, log, delays, result, calls>>

NoSleep == [delay |-> PyInt(0), override |-> FALSE]
NoResponse == [kind |-> "none", status |-> NoStatus, retry_after |-> Absent, body |-> NoBody]

\* the state in which the threads of R are about to make their first call
InitWith(R, objects) ==
    /\ variant \in Variants
    /\ waitBeforeStop \in BOOLEAN
    /\ running = R
    /\ inst = objects
    /\ wait = [i \in Insts |-> None]
    /\ pc = [p \in Procs |-> IF p \in R THEN "attempt" ELSE "off"]
    /\ attempt_number = [p \in Procs |-> 1]
    /\ response = [p \in Procs |-> NoResponse]
    /\ outcome = [p \in Procs |-> NoOutcome]
    /\ upcoming_sleep = [p \in Procs |-> NoSleep]
    /\ log = [p \in Procs |-> <<>>]
    /\ delays = [p \in Procs |-> <<>>]
    /\ result = [p \in Procs |-> NoOutcome]
    /\ calls = [p \in Procs |-> IF p \in R THEN 1 ELSE 0]

\* the scripts are single-threaded: one driver, one SlackPub object at a time
Init == InitWith({1}, [p \in Procs |-> p])

----------------------------------------------------------------------------
(* Steps of the hand-written loop of slack_retries_v0.py *)

\* lines 27-39: one iteration of the while loop up to the sleep
AttemptV0(p, resp) ==
    /\ variant = "v0"
    /\ pc[p] = "attempt"
    /\ response' = [response EXCEPT ![p] = resp]
    /\ log' = [log EXCEPT ![p] = Append(@, LogEntry(resp))]
    /\ LET c == send_msg_slack("v0", resp, wait[inst[p]]) IN
       /\ outcome' = [outcome EXCEPT ![p] = c.out]
       /\ IF resp.kind = "connerr"
          THEN \* requests.post raised outside the try block
               /\ result' = [result EXCEPT ![p] = c.out]
               /\ pc' = [pc EXCEPT ![p] = "done"]
               /\ UNCHANGED <<attempt_number, upcoming_sleep>>
          ELSE IF c.out.kind = "raise"
          THEN \* except: attemp += 1; time.sleep(SLEEP)
               /\ attempt_number' = [attempt_number EXCEPT ![p] = @ + 1]
               /\ upcoming_sleep' = [upcoming_sleep EXCEPT ![p] =
                                        [delay |-> PyInt(default_wait("v0", attempt_number[p])),
                                         override |-> FALSE]]
               /\ pc' = [pc EXCEPT ![p] = "sleep"]
               /\ UNCHANGED result
          ELSE \* else: return response
               /\ result' = [result EXCEPT ![p] = c.out]
               /\ pc' = [pc EXCEPT ![p] = "done"]
               /\ UNCHANGED <<attempt_number, upcoming_sleep>>
    /\ UNCHANGED <<variant, waitBeforeStop, running, inst, wait, delays, calls>>

\* lines 37, 27 and 42: the sleep ends, the loop condition is tested, and
\* after the last iteration the last response's raise_for_status() raises
SleepV0(p) ==
    /\ variant = "v0"
    /\ pc[p] = "sleep"
    /\ delays' = [delays EXCEPT ![p] = Append(@, upcoming_sleep[p])]
    /\ IF attempt_number[p] <= TOTAL_ATTEMPS
       THEN /\ pc' = [pc EXCEPT ![p] = "attempt"]
            /\ UNCHANGED result
       ELSE /\ pc' = [pc EXCEPT ![p] = "done"]
            /\ result' = [result EXCEPT ![p] =
                             IF raise_for_status(response[p].status)
                             THEN Raised("HTTPError", response[p].status, response[p].body)
                             ELSE Returned(NoStatus, NoBody, FALSE)]
    /\ UNCHANGED <<variant, waitBeforeStop, running, inst, wait, attempt_number,
                   response, outcome, upcoming_sleep, log, calls>>

----------------------------------------------------------------------------
(* Steps of the tenacity loop of v1, v2, v3 and retries_slack *)

\* one call of the decorated function body
Attempt(p, resp) ==
    /\ variant \in TenacityVariants
    /\ pc[p] = "attempt"
    /\ response' = [response EXCEPT ![p] = resp]
    /\ log' = [log EXCEPT ![p] = Append(@, LogEntry(resp))]
    /\ LET c == send_msg_slack(variant, resp, wait[inst[p]]) IN
       /\ outcome' = [outcome EXCEPT ![p] = c.out]
       /\ wait' = [wait EXCEPT ![inst[p]] = c.wait]
    /\ pc' = [pc EXCEPT ![p] = "iter"]
    /\ UNCHANGED <<variant, waitBeforeStop, running, inst, attempt_number,
                   upcoming_sleep, delays, result, calls>>

\* tenacity's decision after a call: hand the outcome to the caller, stop
\* with the retries exhausted, or choose the delay and go to sleep
Iter(p) ==
    /\ variant \in TenacityVariants
    /\ pc[p] = "iter"
    /\ LET out == outcome[p]
           stop == stop_after_attempt(STOP_AFTER_ATTEMPT, attempt_number[p])
           w == wait_strategy(variant, wait[inst[p]], attempt_number[p])
       IN
       IF ~retry_predicate(variant, out)
       THEN /\ result' = [result EXCEPT ![p] = out]
            /\ pc' = [pc EXCEPT ![p] = "done"]
            /\ UNCHANGED <<wait, upcoming_sleep>>
       ELSE IF stop
       THEN /\ result' = [result EXCEPT ![p] = exhausted(variant, out)]
            /\ pc' = [pc EXCEPT ![p] = "done"]
            /\ wait' = IF waitBeforeStop THEN [wait EXCEPT ![inst[p]] = w.wait] ELSE wait
            /\ UNCHANGED upcoming_sleep
       ELSE IF float_raises(w.delay)
       THEN \* RetryAction(sleep) converts the delay with float()
            /\ wait' = [wait EXCEPT ![inst[p]] = w.wait]
            /\ result' = [result EXCEPT ![p] = RaisedInWait("OverflowError")]
            /\ pc' = [pc EXCEPT ![p] = "done"]
            /\ UNCHANGED upcoming_sleep
       ELSE /\ wait' = [wait EXCEPT ![inst[p]] = w.wait]
            /\ upcoming_sleep' = [upcoming_sleep EXCEPT ![p] =
                                     [delay |-> w.delay, override |-> w.override]]
            /\ pc' = [pc EXCEPT ![p] = "sleep"]
            /\ UNCHANGED result
    /\ UNCHANGED <<variant, waitBeforeStop, running, inst, attempt_number, response,
                   outcome, log, delays, calls>>

\* tenacity has counted the next attempt (prepare_for_next_attempt) and
\* sleeps the chosen delay: the sleep ends and the next attempt follows, or
\* time.sleep refuses the delay and its exception leaves the loop
Sleep(p) ==
    /\ variant \in TenacityVariants
    /\ pc[p] = "sleep"
    /\ attempt_number' = [attempt_number EXCEPT ![p] = @ + 1]
    /\ \E limit \in SleepLimits :
           LET exc == time_sleep(upcoming_sleep[p].delay, limit) IN
           IF exc # "none"
           THEN /\ result' = [result EXCEPT ![p] = RaisedInWait(exc)]
                /\ pc' = [pc EXCEPT ![p] = "done"]
                /\ UNCHANGED delays
           ELSE /\ delays' = [delays EXCEPT ![p] = Append(@, upcoming_sleep[p])]
                /\ pc' = [pc EXCEPT ![p] = "attempt"]
                /\ UNCHANGED result
    /\ UNCHANGED <<variant, waitBeforeStop, running, inst, wait, response, outcome,
                   upcoming_sleep, log, calls>>

----------------------------------------------------------------------------
(* The drivers: the next logical call of the script *)

\* v3 builds a new SlackPub for every call; retries_slack calls the same
\* slack_cli for every url of the config
NextCall(p) ==
    /\ pc[p] = "done"
    /\ calls[p] < MaxCalls
    /\ calls' = [calls EXCEPT ![p] = @ + 1]
    /\ wait' = IF variant = "rs" THEN wait ELSE [wait EXCEPT ![inst[p]] = None]
    /\ pc' = [pc EXCEPT ![p] = "attempt"]
    /\ attempt_number' = [attempt_number EXCEPT ![p] = 1]
    /\ response' = [response EXCEPT ![p] = NoResponse]
    /\ outcome' = [outcome EXCEPT ![p] = NoOutcome]
    /\ upcoming_sleep' = [upcoming_sleep EXCEPT ![p] = NoSleep]
    /\ log' = [log EXCEPT ![p] = <<>>]
    /\ delays' = [delays EXCEPT ![p] = <<>>]
    /\ result' = [result EXCEPT ![p] = NoOutcome]
    /\ UNCHANGED <<variant, waitBeforeStop, running, inst>>

Next ==
    \/ \E p \in Procs, resp \in Responses : AttemptV0(p, resp)
    \/ \E p \in Procs : SleepV0(p)
    \/ \E p \in Procs, resp \in Responses : Attempt(p, resp)
    \/ \E p \in Procs : Iter(p)
    \/ \E p \in Procs : Sleep(p)
    \/ \E p \in Procs : NextCall(p)

Spec == Init /\ [][Next]_vars

----------------------------------------------------------------------------
(* Vocabulary of the properties *)

\* the attempt budget of the variant that runs
max_attempts == IF variant = "v0" THEN TOTAL_ATTEMPS ELSE STOP_AFTER_ATTEMPT

\* classification of a logged response by its status code
IsHttp(e) == e.kind = "http"
Is2xx(e) == IsHttp(e) /\ 200 <= e.status /\ e.status <= 299
Is5xx(e) == IsHttp(e) /\ 500 <= e.status /\ e.status <= 599
Is429(e) == IsHttp(e) /\ e.status = 429
IsRetryable(e) == Is429(e) \/ Is5xx(e)
IsFatal(e) == IsHttp(e) /\ ~Is2xx(e) /\ ~IsRetryable(e)
IsTransportError(e) == e.kind = "connerr"

\* a 429 whose Retry-After header is an integer
IsHinted(e) == Is429(e) /\ e.retry_after.present /\ IntParses(e.retry_after.text)
HintOf(e) == IntOf(e.retry_after.text)

Done(p) == pc[p] = "done"

----------------------------------------------------------------------------
(* C1: in every variant and for every sequence of responses, a logical     *)
(* call never performs more than max_attempts attempts.                    *)
C1_AttemptsBounded ==
    \A p \in running : Len(log[p]) <= max_attempts

\* a call that used its whole budget
C1_Witness ==
    \E p \in running : Done(p) /\ Len(log[p]) = max_attempts /\ result[p].kind = "raise"

----------------------------------------------------------------------------
(* C2: a logical call whose every attempt got a 429 or 5xx response         *)
(* performs exactly max_attempts attempts and then ends by raising; it     *)
(* neither stops earlier nor attempts once more.                           *)
C2_AllRetryableExhausts ==
    \A p \in running :
        (Done(p) /\ \A i \in 1..Len(log[p]) : IsRetryable(log[p][i]))
            => (Len(log[p]) = max_attempts /\ result[p].kind = "raise")

----------------------------------------------------------------------------
(* C3: a logical call whose first attempt got a fatal status (non-2xx,     *)
(* not 429, not 5xx) performs exactly one attempt and no delay, and ends   *)
(* by raising the error to its caller (v3 and retries_slack).              *)
C3_FatalFirstAttemptRaises ==
    \A p \in running :
        (variant \in {"v3", "rs"} /\ Len(log[p]) >= 1 /\ IsFatal(log[p][1]))
            => /\ Len(log[p]) = 1
               /\ delays[p] = <<>>
               /\ pc[p] # "sleep"
               /\ Done(p) => result[p].kind = "raise"

----------------------------------------------------------------------------
(* C4: in the variants with the server-directed override (v3 and           *)
(* retries_slack), when attempt i got a 429 with Retry-After = d, an       *)
(* integer d >= 0, the delay slept before attempt i+1 is d; this holds for *)
(* every such attempt, so consecutive hints d1, d2 give delays d1, d2.     *)
C4_HintedDelayIsRetryAfter ==
    \A p \in running :
        variant \in {"v3", "rs"} =>
            \A i \in 1..Len(delays[p]) :
                (IsHinted(log[p][i]) /\ ~IsNegative(HintOf(log[p][i]))) =>
                    /\ delays[p][i].delay = HintOf(log[p][i])
                    /\ delays[p][i].override

\* hints 5 then 0 were followed by sleeps of 5 then 0, neither the default
C4_Witness ==
    \E p \in running :
        /\ variant \in {"v3", "rs"}
        /\ Len(delays[p]) >= 2
        /\ IsHinted(log[p][1]) /\ HintOf(log[p][1]) = PyInt(5)
        /\ IsHinted(log[p][2]) /\ HintOf(log[p][2]) = PyInt(0)
        /\ delays[p][1].delay = PyInt(5)
        /\ delays[p][1].delay # PyInt(default_wait(variant, 1))
        /\ delays[p][2].delay = PyInt(0)
        /\ delays[p][2].delay # PyInt(default_wait(variant, 2))

----------------------------------------------------------------------------
(* C5: the override is one-shot.  When custom_wait has returned a pending  *)
(* override as the delay, the slot of the object is empty; and every later *)
(* delay of the same logical call is the default schedule's value unless   *)
(* the attempt before it got a 429 with an integer Retry-After.            *)
C5_OverrideOneShot ==
    \A p \in running :
        variant \in {"v3", "rs"} =>
            /\ (pc[p] = "sleep" /\ upcoming_sleep[p].override) => ~wait[inst[p]].some
            /\ \A i, j \in 1..Len(delays[p]) :
                   (i < j /\ delays[p][i].override /\ ~IsHinted(log[p][j]))
                       => /\ delays[p][j].delay = PyInt(default_wait(variant, j))
                          /\ ~delays[p][j].override

\* an override was consumed before attempt 2 and the delay before attempt 3
\* came from the default schedule
C5_Witness ==
    \E p \in running :
        /\ variant \in {"v3", "rs"}
        /\ Len(delays[p]) >= 2
        /\ delays[p][1].override /\ delays[p][1].delay = PyInt(5)
        /\ ~IsHinted(log[p][2])
        /\ ~delays[p][2].override
        /\ delays[p][2].delay = PyInt(default_wait(variant, 2))
        /\ ~wait[inst[p]].some

----------------------------------------------------------------------------
(* C6: every status that is not 2xx, 429 or 5xx is a fatal failure: the    *)
(* attempt that got it is the last one, the call ends by raising, and the  *)
(* response is never handed back as a result (v3 and retries_slack).       *)
C6_OtherStatusIsFatal ==
    \A p \in running :
        variant \in {"v3", "rs"} =>
            \A i \in 1..Len(log[p]) :
                IsFatal(log[p][i]) =>
                    /\ i = Len(log[p])
                    /\ pc[p] # "sleep"
                    /\ Done(p) => result[p].kind = "raise"

----------------------------------------------------------------------------
(* C7: an attempt that got a response is followed by another attempt only  *)
(* if the status was 429 or 5xx; in particular no attempt that got a 4xx   *)
(* other than 429 is followed by one (v1, v2 and v3).                      *)
C7_RetryOnlyOn429Or5xx ==
    \A p \in running :
        variant \in {"v1", "v2", "v3"} =>
            \A i \in 1..Len(log[p]) :
                (i < Len(log[p]) /\ IsHttp(log[p][i])) => IsRetryable(log[p][i])

----------------------------------------------------------------------------
(* C8: when the last permitted attempt got a retryable failure, the error  *)
(* raised to the caller is that attempt's own failure, carrying the status *)
(* and text of the final response, not another error wrapped around it.    *)
C8_ExhaustedRaisesLastFailure ==
    \A p \in running :
        (/\ variant \in {"v0", "v3", "rs"}
         /\ Done(p)
         /\ Len(log[p]) = max_attempts
         /\ IsRetryable(log[p][max_attempts]))
            => /\ result[p].kind = "raise"
               /\ result[p].exc # "RetryError"
               /\ result[p] = outcome[p]

----------------------------------------------------------------------------
(* C9: a connection-level failure of requests.post on an attempt before    *)
(* the last permitted one does not end the logical call: a delay and a     *)
(* further attempt follow (v0, v2 and v3).                                 *)
C9_TransportErrorRetried ==
    \A p \in running :
        (/\ variant \in {"v0", "v2", "v3"}
         /\ Len(log[p]) >= 1
         /\ Len(log[p]) < max_attempts
         /\ IsTransportError(log[p][Len(log[p])]))
            => ~Done(p)

----------------------------------------------------------------------------
(* C10: when attempts 1..k-1 got retryable failures and attempt k got a    *)
(* 2xx response, attempt k is the last attempt, and the logical call ends  *)
(* by returning the body of attempt k: no earlier failure is raised.       *)
C10_SuccessAfterFailuresReturnsBody ==
    \A p \in running :
        \A k \in 1..Len(log[p]) :
            (Is2xx(log[p][k]) /\ \A i \in 1..(k - 1) : IsRetryable(log[p][i]))
                => /\ k = Len(log[p])
                   /\ pc[p] # "sleep"
                   /\ Done(p) => /\ result[p].kind = "return"
                                 /\ result[p].body = response[p].body
                                 /\ result[p].status = log[p][k].status

\* two retryable failures were absorbed and the third attempt's body returned
C10_Witness ==
    \E p \in running :
        /\ Done(p)
        /\ Len(log[p]) = 3
        /\ Is429(log[p][1]) /\ Is5xx(log[p][2]) /\ Is2xx(log[p][3])
        /\ result[p].kind = "return"
        /\ result[p].body = "b2"
        /\ Len(delays[p]) = 2

----------------------------------------------------------------------------
(* C11: in a logical call in which no response carried a Retry-After       *)
(* header, every delay between attempts is the default schedule's value    *)
(* for its attempt index and no server-directed override is used.          *)
C11_NoHeaderDefaultDelays ==
    \A p \in running :
        (\A i \in 1..Len(log[p]) : ~log[p][i].retry_after.present)
            => \A i \in 1..Len(delays[p]) :
                   /\ delays[p][i].delay = PyInt(default_wait(variant, i))
                   /\ ~delays[p][i].override

----------------------------------------------------------------------------
(* C16: no delay follows the terminal attempt: a logical call that ended   *)
(* after k attempts has slept exactly k-1 times.                           *)
C16_NoSleepAfterLastAttempt ==
    \A p \in running :
        Done(p) => Len(delays[p]) = Len(log[p]) - 1

----------------------------------------------------------------------------
(* C17: when a logical call on a SlackPub object has ended, the pending    *)
(* override of that object is empty, so the next logical call on the same  *)
(* object never sleeps a delay hinted by a response to an earlier call.    *)
C17_SlotEmptyAtTermination ==
    \A p \in running :
        /\ Done(p) => ~wait[inst[p]].some
        /\ \A i \in 1..Len(delays[p]) :
               delays[p][i].override => IsHinted(log[p][i])

----------------------------------------------------------------------------
(* What a raised error tells its catcher about the attempts: SendMsgError  *)
(* holds the message and, in retries_slack, the result dict of the attempt *)
(* that raised it; HTTPError and RetryError likewise describe the last     *)
(* attempt only.  No error object holds the earlier attempts.  An error    *)
(* raised between two calls, by float() or by time.sleep, describes no     *)
(* attempt at all.                                                         *)
error_attempts(res, entries) ==
    IF res.kind = "raise" /\ res.during = "call" /\ Len(entries) > 0
    THEN <<entries[Len(entries)]>>
    ELSE <<>>

----------------------------------------------------------------------------
(* C15: when a logical call ends by raising the failure of an attempt, a   *)
(* fatal failure that is not retried or the failure left when the retries  *)
(* are exhausted, the raised error carries the last attempt's failure      *)
(* reason and the full ordered sequence of the attempts made, whose length *)
(* is the number of attempts performed.                                    *)
C15_ErrorCarriesAttempts ==
    \A p \in running :
        (Done(p) /\ result[p].kind = "raise" /\ result[p].during = "call")
            => LET carried == error_attempts(result[p], log[p]) IN
               /\ Len(carried) >= 1
               /\ carried[Len(carried)] = log[p][Len(log[p])]
               /\ carried = log[p]
               /\ Len(carried) = Len(log[p])

----------------------------------------------------------------------------
(* The default schedules on their own: default_wait applied to the attempt *)
(* indexes 1, 2, ... MaxIndex, the delays collected in delays[1].          *)

InitSchedule ==
    /\ variant \in Variants
    /\ waitBeforeStop \in BOOLEAN
    /\ running = {1}
    /\ inst = [p \in Procs |-> p]
    /\ wait = [i \in Insts |-> None]
    /\ pc = [p \in Procs |-> IF p = 1 THEN "schedule" ELSE "off"]
    /\ attempt_number = [p \in Procs |-> 1]
    /\ response = [p \in Procs |-> NoResponse]
    /\ outcome = [p \in Procs |-> NoOutcome]
    /\ upcoming_sleep = [p \in Procs |-> NoSleep]
    /\ log = [p \in Procs |-> <<>>]
    /\ delays = [p \in Procs |-> <<>>]
    /\ result = [p \in Procs |-> NoOutcome]
    /\ calls = [p \in Procs |-> 0]

\* default_wait(retry_state) for the next attempt index
ApplySchedule(p) ==
    /\ pc[p] = "schedule"
    /\ attempt_number[p] <= MaxIndex
    /\ delays' = [delays EXCEPT ![p] =
                     Append(@, [delay |-> PyInt(default_wait(variant, attempt_number[p])),
                                override |-> FALSE])]
    /\ attempt_number' = [attempt_number EXCEPT ![p] = @ + 1]
    /\ UNCHANGED <<variant, waitBeforeStop, running, inst, wait, pc, response,
                   outcome, upcoming_sleep, log, result, calls>>

NextSchedule == \E p \in Procs : ApplySchedule(p)

SpecSchedule == InitSchedule /\ [][NextSchedule]_vars

----------------------------------------------------------------------------
(* C18: every delay of the default schedule is non-negative, the delays do *)
(* not decrease with the attempt index, the exponential schedules stay     *)
(* between their minimum (0 in v1 and v3, 4 in v2) and the cap of 10, and  *)
(* the fixed chain gives 1, 1, 3, 3, 6 in order (6 from then on).          *)
C18_DefaultScheduleBounds ==
    \A i \in 1..Len(delays[1]) :
        LET d == delays[1][i].delay.val IN
        /\ d >= 0
        /\ i > 1 => delays[1][i - 1].delay.val <= d
        /\ variant \in {"v1", "v3"} => (0 <= d /\ d <= 10)
        /\ variant = "v2" => (4 <= d /\ d <= 10)
        /\ variant = "rs" => d = <<1, 1, 3, 3, 6>>[IF i < 5 THEN i ELSE 5]
        /\ variant = "v0" => d = SLEEP

\* the exponential schedule went from its minimum to the cap
C18_Witness ==
    /\ pc[1] = "schedule"
    /\ variant = "v2"
    /\ Len(delays[1]) >= 5
    /\ delays[1][1].delay = PyInt(4)
    /\ delays[1][4].delay = PyInt(8)
    /\ delays[1][5].delay = PyInt(10)

----------------------------------------------------------------------------
(* Two threads calling send_msg_slack at the same time.                    *)
(*                                                                         *)
(* Neither SlackPub nor custom_wait takes a lock, so a thread switch can   *)
(* fall between the statements of custom_wait: the read of the slot        *)
(* (wait = func_object.wait.get(func_name, None)) and its clearing         *)
(* (func_object.wait[func_name] = None) are separate steps here.  Each     *)
(* thread makes one logical call, in the variants that have a SlackPub, and *)
(* the interleavings of its first MaxConcAttempts attempts are explored.    *)

SlackPubVariants == {"v3", "rs"}

\* the responses the two threads are answered with
ConcResponses ==
    {Http(429, Hdr(<<53>>), "b1"), Http(429, Hdr(<<48>>), "b1"),
     Http(503, Absent, "b1"), Http(200, Absent, "b1"), Http(404, Absent, "b1")}

\* a wait dict kept in one place for all objects (a class attribute)
wait_dict_of_shared(p) == 1

\* func_object = retry_state.args[0]: the object whose wait dict custom_wait uses
wait_dict_of(p) == inst[p]

\* the attempt number taken from the first thread's retry state
retry_state_attempt_global(p) == attempt_number[1]

\* retry_state.attempt_number: each run has its own retry state
retry_state_attempt(p) == attempt_number[p]

\* both threads call the same SlackPub object
InitShared ==
    /\ InitWith({1, 2}, [p \in Procs |-> 1])
    /\ variant \in SlackPubVariants

\* each thread calls its own SlackPub object
InitDistinct ==
    /\ InitWith({1, 2}, [p \in Procs |-> p])
    /\ variant \in SlackPubVariants

\* tenacity's decision after a call, up to the first statements of
\* custom_wait: the slot is read into the local variable wait
IterRead(p) ==
    /\ variant \in SlackPubVariants
    /\ pc[p] = "iter"
    /\ LET out == outcome[p]
           stop == stop_after_attempt(STOP_AFTER_ATTEMPT, attempt_number[p])
           w == custom_wait(variant, wait[wait_dict_of(p)], retry_state_attempt(p))
       IN
       IF ~retry_predicate(variant, out)
       THEN /\ result' = [result EXCEPT ![p] = out]
            /\ pc' = [pc EXCEPT ![p] = "done"]
            /\ UNCHANGED upcoming_sleep
       ELSE IF stop /\ ~waitBeforeStop
       THEN /\ result' = [result EXCEPT ![p] = exhausted(variant, out)]
            /\ pc' = [pc EXCEPT ![p] = "done"]
            /\ UNCHANGED upcoming_sleep
       ELSE /\ upcoming_sleep' = [upcoming_sleep EXCEPT ![p] =
                                     [delay |-> w.delay, override |-> w.override]]
            /\ IF w.override
               THEN /\ pc' = [pc EXCEPT ![p] = "clearing"]
                    /\ UNCHANGED result
               ELSE IF stop
               THEN /\ result' = [result EXCEPT ![p] = exhausted(variant, out)]
                    /\ pc' = [pc EXCEPT ![p] = "done"]
               ELSE /\ pc' = [pc EXCEPT ![p] = "sleep"]
                    /\ UNCHANGED result
    /\ UNCHANGED <<variant, waitBeforeStop, running, inst, wait, attempt_number,
                   response, outcome, log, delays, calls>>

\* the else branch of custom_wait: the slot is cleared and the value that
\* was read is returned; then tenacity stops or goes to sleep
IterClear(p) ==
    /\ variant \in SlackPubVariants
    /\ pc[p] = "clearing"
    /\ wait' = [wait EXCEPT ![wait_dict_of(p)] = None]
    /\ IF stop_after_attempt(STOP_AFTER_ATTEMPT, attempt_number[p])
       THEN /\ result' = [result EXCEPT ![p] = exhausted(variant, outcome[p])]
            /\ pc' = [pc EXCEPT ![p] = "done"]
       ELSE IF float_raises(upcoming_sleep[p].delay)
       THEN /\ result' = [result EXCEPT ![p] = RaisedInWait("OverflowError")]
            /\ pc' = [pc EXCEPT ![p] = "done"]
       ELSE /\ pc' = [pc EXCEPT ![p] = "sleep"]
            /\ UNCHANGED result
    /\ UNCHANGED <<variant, waitBeforeStop, running, inst, attempt_number, response,
                   outcome, upcoming_sleep, log, delays, calls>>

NextConc ==
    \/ \E p \in Procs, resp \in ConcResponses :
           Len(log[p]) < MaxConcAttempts /\ Attempt(p, resp)
    \/ \E p \in Procs : IterRead(p)
    \/ \E p \in Procs : IterClear(p)
    \/ \E p \in Procs : Sleep(p)

SpecShared == InitShared /\ [][NextConc]_vars

SpecDistinct == InitDistinct /\ [][NextConc]_vars

----------------------------------------------------------------------------
(* C12: on one shared SlackPub object, a pending override set by a 429     *)
(* response is returned as a delay to at most one wait computation, and    *)
(* only to the retry loop whose attempt set it.                            *)
C12_SharedOverrideExclusive ==
    /\ \A p \in running :
           \A i \in 1..Len(delays[p]) :
               delays[p][i].override
                   => (IsHinted(log[p][i]) /\ delays[p][i].delay = HintOf(log[p][i]))
    /\ Cardinality({<<p, i>> \in running \X (1..STOP_AFTER_ATTEMPT) :
                        i <= Len(delays[p]) /\ delays[p][i].override})
           <= Cardinality({<<p, i>> \in running \X (1..STOP_AFTER_ATTEMPT) :
                               i <= Len(log[p]) /\ IsHinted(log[p][i])})

----------------------------------------------------------------------------
(* C13: on distinct SlackPub objects, under every interleaving, each       *)
(* call's delays and attempts are those it has when it runs alone: the     *)
(* hinted delay after each of its own hinted 429 responses, the default    *)
(* delay otherwise, and never an override set by the other call.           *)
C13_DistinctObjectsIsolated ==
    \A p \in running :
        /\ Len(log[p]) <= max_attempts
        /\ \A i \in 1..Len(delays[p]) :
               IF IsHinted(log[p][i])
               THEN delays[p][i].override /\ delays[p][i].delay = HintOf(log[p][i])
               ELSE ~delays[p][i].override
                    /\ delays[p][i].delay = PyInt(default_wait(variant, i))
        /\ (pc[p] = "sleep" /\ upcoming_sleep[p].override) => ~wait[inst[p]].some
        /\ (pc[p] = "iter" /\ IsHinted(log[p][Len(log[p])]))
               => wait[inst[p]] = Some(HintOf(log[p][Len(log[p])]))

\* one thread slept the 5 hinted to it while the other, answered 503 in the
\* meantime, slept its default delay
C13_Witness ==
    /\ inst[1] # inst[2]
    /\ Len(delays[1]) >= 1 /\ Len(delays[2]) >= 1
    /\ IsHinted(log[1][1]) /\ delays[1][1].delay = PyInt(5) /\ delays[1][1].override
    /\ Is5xx(log[2][1]) /\ ~delays[2][1].override
    /\ delays[2][1].delay = PyInt(default_wait(variant, 1))

----------------------------------------------------------------------------
====
